---- MODULE Spec2Model ----
(***************************************************************************)
(* RSS watcher: the two pipelines of the repository over one persisted     *)
(* dedup state.                                                            *)
(*   rss_watcher.py       sequential fetch, match, prune_state, save       *)
(*   rss_watcher_fast.py  concurrent conditional fetch under a semaphore,  *)
(*                        sequential merge, match, age filter, save        *)
(* Strings of the program are sequences of one-character strings, so that  *)
(* lower-casing and substring containment are computed, not assumed.       *)
(***************************************************************************)
EXTENDS Integers, Sequences, FiniteSets, TLC

----------------------------------------------------------------------------
(* Bounds of the model *)

NumFeeds == 2
MaxDays == 2
MaxRuns == 2

(* Program constants and configuration *)

SecondsPerDay == 86400
STATE_TTL_DAYS == 1
STATE_MAX_IDS_PER_FEED == 1
MAX_ENTRY_AGE_DAYS == 1
MAX_CONCURRENCY == 1

Feeds == 1..NumFeeds

\* parse_opml returns the feed addresses in document order, without repeats
feeds == [i \in 1..NumFeeds |-> i]

----------------------------------------------------------------------------
(* Entries as the external parser hands them over.  A missing key and an   *)
(* empty string are both falsy for entry.get(key); both are <<>> here.     *)

(* published_parsed is Absent or holds the publish time, <<t>>, in seconds   *)
(* of the model's clock, which starts at 0: an entry put out a day before   *)
(* the first run has <<-86400>>.                                            *)

EA == [id |-> <<"a">>, guid |-> <<>>, link |-> <<>>, title |-> <<"X">>,
       summary |-> <<>>, published |-> <<>>, published_parsed |-> <<>>]
EB == [id |-> <<>>, guid |-> <<>>, link |-> <<"b">>, title |-> <<"y">>,
       summary |-> <<"z">>, published |-> <<"d">>,
       published_parsed |-> <<0 - 86400>>]

\* the entries a publisher puts out, oldest first
Stream == <<EA, EB>>

\* what a feed serves once n entries are out: the entry list, newest first
Served(n) == [i \in 1..n |-> Stream[n + 1 - i]]

----------------------------------------------------------------------------
(* Keyword logic *)

UpperCase == <<"A", "B", "C", "D", "E", "F", "G", "H", "I", "J", "K", "L", "M",
               "N", "O", "P", "Q", "R", "S", "T", "U", "V", "W", "X", "Y", "Z">>
LowerCase == <<"a", "b", "c", "d", "e", "f", "g", "h", "i", "j", "k", "l", "m",
               "n", "o", "p", "q", "r", "s", "t", "u", "v", "w", "x", "y", "z">>

LowerChar(c) ==
  IF \E i \in DOMAIN UpperCase : UpperCase[i] = c
  THEN LowerCase[CHOOSE i \in DOMAIN UpperCase : UpperCase[i] = c]
  ELSE c

UpperChar(c) ==
  IF \E i \in DOMAIN LowerCase : LowerCase[i] = c
  THEN UpperCase[CHOOSE i \in DOMAIN LowerCase : LowerCase[i] = c]
  ELSE c

\* str.lower(), str.upper()
lower(s) == [i \in 1..Len(s) |-> LowerChar(s[i])]
upper(s) == [i \in 1..Len(s) |-> UpperChar(s[i])]

\* Python's  term in s
IsSubstr(t, s) ==
  \E i \in 0..(Len(s) - Len(t)) : SubSeq(s, i + 1, i + Len(t)) = t

\* any(term in s for term in group)
group_matches_any(group, s) == \E t \in DOMAIN group : IsSubstr(group[t], s)

\* all(term in s for term in group)
group_matches(group, s) == \A t \in DOMAIN group : IsSubstr(group[t], s)

\* for group in clause: ... return True
RECURSIVE clause_matches(_, _)
clause_matches(clause, s) ==
  IF clause = <<>> THEN FALSE
  ELSE IF group_matches(Head(clause), s) THEN TRUE
  ELSE clause_matches(Tail(clause), s)

\* for clause in rules: ... return True; return False
RECURSIVE rules_match(_, _)
rules_match(rs, s) ==
  IF rs = <<>> THEN FALSE
  ELSE IF clause_matches(Head(rs), s) THEN TRUE
  ELSE rules_match(Tail(rs), s)

\* the matcher without  if not rules: return True
text_matches_unguarded(text, rs) == rules_match(rs, lower(text))

text_matches(text, rs) ==
  IF rs = <<>> THEN TRUE ELSE rules_match(rs, lower(text))

(* parse_rules *)

Blank == {" ", "\t"}

\* str.strip()
RECURSIVE lstrip(_)
lstrip(s) == IF s # <<>> /\ Head(s) \in Blank THEN lstrip(Tail(s)) ELSE s
RECURSIVE rstrip(_)
rstrip(s) ==
  IF s # <<>> /\ s[Len(s)] \in Blank THEN rstrip(SubSeq(s, 1, Len(s) - 1)) ELSE s
strip(s) == rstrip(lstrip(s))

\* tok.strip('"')
RECURSIVE strip_quotes(_)
strip_quotes(t) ==
  IF t # <<>> /\ Head(t) = "\"" THEN strip_quotes(Tail(t))
  ELSE IF t # <<>> /\ t[Len(t)] = "\"" THEN strip_quotes(SubSeq(t, 1, Len(t) - 1))
  ELSE t

\* re.findall(r'"[^"]+"|\S+', s) from position i: at each position the quoted
\* alternative is tried first, then the run of non-blank characters
RECURSIVE findall(_, _)
findall(s, i) ==
  IF i > Len(s) THEN <<>>
  ELSE LET closing == { j \in (i + 1)..Len(s) : s[j] = "\"" }
           q == CHOOSE j \in closing : \A k \in closing : j <= k
           ends == { j \in i..Len(s) :
                      /\ \A k \in i..j : s[k] \notin Blank
                      /\ j = Len(s) \/ s[j + 1] \in Blank }
           e == CHOOSE j \in ends : TRUE
       IN IF s[i] = "\"" /\ closing # {} /\ q > i + 1
          THEN <<SubSeq(s, i, q)>> \o findall(s, q + 1)
          ELSE IF s[i] \notin Blank
          THEN <<SubSeq(s, i, e)>> \o findall(s, e + 1)
          ELSE findall(s, i + 1)

\* a term that keeps the case of its token
term_of_raw(tok) == strip_quotes(tok)

\* tok.strip('"').lower()
term_of(tok) == lower(strip_quotes(tok))

\* the token loop of one line; clause and group are the lists built so far
RECURSIVE parse_tokens(_, _, _)
parse_tokens(parts, clause, group) ==
  IF parts = <<>>
  THEN IF group # <<>> THEN Append(clause, group) ELSE clause
  ELSE LET tok == Head(parts)
           up == upper(tok)
       IN IF up = <<"O", "R">>
          THEN IF group # <<>>
               THEN parse_tokens(Tail(parts), Append(clause, group), <<>>)
               ELSE parse_tokens(Tail(parts), clause, group)
          ELSE IF up = <<"A", "N", "D">>
          THEN parse_tokens(Tail(parts), clause, group)
          ELSE parse_tokens(Tail(parts), clause, Append(group, term_of(tok)))

\* a line that is skipped: blank, or a comment
skipped(raw) == strip(raw) = <<>> \/ Head(strip(raw)) = "#"

RECURSIVE parse_rules(_)
parse_rules(lines) ==
  IF lines = <<>> THEN <<>>
  ELSE LET raw == Head(lines)
           clause == parse_tokens(findall(strip(raw), 1), <<>>, <<>>)
           rest == parse_rules(Tail(lines))
       IN IF skipped(raw) THEN rest
          ELSE IF clause # <<>> THEN <<clause>> \o rest
          ELSE rest

\* the keyword files of the runs: none (or an empty one), or the one line  x
KeywordFiles == { <<>>, << <<"x">> >> }

\* cli: rules = parse_rules(lines)
RuleChoices == { parse_rules(ls) : ls \in KeywordFiles }

\* f"{title}\n{desc}"
combined(e) == e.title \o <<"\n">> \o e.summary

----------------------------------------------------------------------------
(* Fingerprint *)

\* hashlib.sha1(combo).hexdigest(), taken as injective on the hashed text
sha1hex(combo) == <<"sha1(">> \o combo \o <<")">>

\* title + "|" + link + "|" + str(published)
combo_of(e) == e.title \o <<"|">> \o e.link \o <<"|">> \o e.published

\* for key in ("id", "guid", "link"): if entry.get(key): return entry.get(key)
RECURSIVE first_truthy(_, _)
first_truthy(e, keys) ==
  IF keys = <<>> THEN <<>>
  ELSE IF e[Head(keys)] # <<>> THEN e[Head(keys)]
  ELSE first_truthy(e, Tail(keys))

\* a fingerprint that looks at the link first
norm_id_link_first(e) ==
  LET v == first_truthy(e, <<"link", "id", "guid">>)
  IN IF v # <<>> THEN v ELSE <<"h:">> \o sha1hex(combo_of(e))

norm_id(e) ==
  LET v == first_truthy(e, <<"id", "guid", "link">>)
  IN IF v # <<>> THEN v ELSE <<"h:">> \o sha1hex(combo_of(e))

----------------------------------------------------------------------------
(* The per-feed dict  fingerprint -> timestamp, in insertion order *)

\* a membership test that never finds the key
HasNoId(items, id) == FALSE

\* _id in feed_seen
HasId(items, id) == \E i \in DOMAIN items : items[i].id = id

\* a match that is not marked seen
PutNothing(items, id, ts) == items

\* feed_seen[_id] = ts
PutId(items, id, ts) ==
  IF HasId(items, id)
  THEN [i \in DOMAIN items |->
          IF items[i].id = id THEN [id |-> id, ts |-> ts] ELSE items[i]]
  ELSE Append(items, [id |-> id, ts |-> ts])

IdsOf(items) == { items[i].id : i \in DOMAIN items }

DefaultState == [seen |-> [f \in Feeds |-> <<>>], last_run |-> 0]

\* a file on disk: missing, or the JSON text of data
NoFile(fallback) == [kind |-> "missing", data |-> fallback]
JsonFile(data) == [kind |-> "json", data |-> data]

\* write_text cut short: the file was truncated and holds a prefix of the text
TornFile(data) == [kind |-> "partial", data |-> data]

\* load_state that never reads the file back
load_state_forget(file) == DefaultState

\* a missing file degrades to the default state
load_state(file) == IF file.kind = "json" THEN file.data ELSE DefaultState

\* save_state that writes last_run and drops the fingerprints
save_state_unseen(st) == JsonFile([st EXCEPT !.seen = DefaultState.seen])

\* the file, rewritten with json.dumps(state)
save_state(st) == JsonFile(st)

----------------------------------------------------------------------------
(* prune_state *)

\* sorted(..., key=ts, reverse=True): stable, equal timestamps keep their order
\* the items as the dict holds them, unsorted
SortAsStored(items) == items

RECURSIVE SortNewestFirst(_)
SortNewestFirst(items) ==
  IF items = <<>> THEN <<>>
  ELSE LET r == items[1]
           rest == SortNewestFirst(Tail(items))
           before == SelectSeq(rest, LAMBDA q : q.ts > r.ts)
           after == SelectSeq(rest, LAMBDA q : q.ts <= r.ts)
       IN before \o <<r>> \o after

\* the slice [:n+1]
TakeOneMore(s, n) == SubSeq(s, 1, IF Len(s) < n + 1 THEN Len(s) ELSE n + 1)

\* the slice [:n]
Take(s, n) == SubSeq(s, 1, IF Len(s) < n THEN Len(s) ELSE n)

\* prune_state keeping only v > cutoff
prune_items_strict(items, nowv) ==
  LET cutoff == nowv - STATE_TTL_DAYS * SecondsPerDay
      new_items == SelectSeq(items, LAMBDA r : r.ts > cutoff)
  IN IF Len(new_items) > STATE_MAX_IDS_PER_FEED
     THEN Take(SortNewestFirst(new_items), STATE_MAX_IDS_PER_FEED)
     ELSE new_items

prune_items(items, nowv) ==
  LET cutoff == nowv - STATE_TTL_DAYS * SecondsPerDay
      new_items == SelectSeq(items, LAMBDA r : r.ts >= cutoff)
  IN IF Len(new_items) > STATE_MAX_IDS_PER_FEED
     THEN Take(SortNewestFirst(new_items), STATE_MAX_IDS_PER_FEED)
     ELSE new_items

prune_state(st, nowv) ==
  [st EXCEPT !.seen = [f \in Feeds |-> prune_items(st.seen[f], nowv)]]

----------------------------------------------------------------------------
(* The entry loop of process() *)

RECURSIVE SlowLoop(_, _, _, _, _, _)
SlowLoop(entries, f, feed_seen, acc, rules, now_ts) ==
  IF entries = <<>> THEN [seen |-> feed_seen, hits |-> acc]
  ELSE LET e == Head(entries)
           id == norm_id(e)
       IN IF HasId(feed_seen, id)
          THEN SlowLoop(Tail(entries), f, feed_seen, acc, rules, now_ts)
          ELSE IF text_matches(combined(e), rules)
          THEN SlowLoop(Tail(entries), f, PutId(feed_seen, id, now_ts),
                        Append(acc, [f |-> f, e |-> e, id |-> id]), rules, now_ts)
          ELSE SlowLoop(Tail(entries), f, feed_seen, acc, rules, now_ts)

\* time.mktime reads the parsed publish time, which is UTC, as local time
mktime(t, offset) == t - offset

(* The entry loop of main_async() *)

age_dropped(e, cutoff_ts, offset) ==
  /\ e.published_parsed # <<>>
  /\ mktime(e.published_parsed[1], offset) < cutoff_ts

RECURSIVE FastLoop(_, _, _, _, _, _, _, _)
FastLoop(entries, f, feed_seen, acc, rules, cutoff_ts, offset, nowv) ==
  IF entries = <<>> THEN [seen |-> feed_seen, hits |-> acc]
  ELSE LET e == Head(entries)
           id == norm_id(e)
       IN IF HasId(feed_seen, id)
          THEN FastLoop(Tail(entries), f, feed_seen, acc, rules, cutoff_ts, offset, nowv)
          ELSE IF age_dropped(e, cutoff_ts, offset)
          THEN FastLoop(Tail(entries), f, feed_seen, acc, rules, cutoff_ts, offset, nowv)
          ELSE IF text_matches(combined(e), rules)
          THEN FastLoop(Tail(entries), f, PutId(feed_seen, id, nowv),
                        Append(acc, [f |-> f, e |-> e, id |-> id]), rules,
                        cutoff_ts, offset, nowv)
          ELSE FastLoop(Tail(entries), f, feed_seen, acc, rules, cutoff_ts, offset, nowv)

----------------------------------------------------------------------------
(* Cache records.  A dict key is either absent, <<>>, or holds a value v,   *)
(* <<v>>; None is a value.                                                  *)

Absent == <<>>
Key(v) == <<v>>
None == <<"None">>

NoRecord == [etag |-> Absent, last_modified |-> Absent, fetched_at |-> Absent,
             status |-> Absent, error |-> Absent]

\* meta.get(k) is truthy
Truthy(x) == x # Absent /\ x # Key(None)

\* cache[orig] = meta
merge_overwrite(old, meta) == meta

\* {**old, **meta}
merge(old, meta) ==
  [k \in DOMAIN NoRecord |-> IF meta[k] = Absent THEN old[k] ELSE meta[k]]

NoCache == [f \in Feeds |-> NoRecord]

\* a load that takes whatever the file holds, without the try/except
load_json_trusting(file, fallback) ==
  IF file.kind = "missing" THEN fallback ELSE file.data

load_json(file, fallback) == IF file.kind = "json" THEN file.data ELSE fallback

\* the file, rewritten with json.dumps(data)
save_json(data) == JsonFile(data)

\* the validators a server derives from what it serves
ETagOf(c) == <<"etag", c>>
LastModifiedOf(c) == <<"lm", c>>

\* the server of the first feed sends both validators with a body, the
\* servers of the other feeds send none
SendsValidators(f) == f = 1

\* fetch_feed: the conditional request fields built from the cache record
request_headers(meta) ==
  [if_none_match |-> IF Truthy(meta.etag) THEN meta.etag ELSE Absent,
   if_modified_since |->
     IF Truthy(meta.last_modified) THEN meta.last_modified ELSE Absent]

\* fetch_feed: resp.status == 304
not_modified_result(url, meta) == [url |-> url, content |-> <<>>, meta |-> meta]

\* fetch_feed: any other response; the body is read
fresh_result(url, body, etag, last_modified, nowv) ==
  [url |-> url, content |-> <<body>>,
   meta |-> [etag |-> Key(etag), last_modified |-> Key(last_modified),
             fetched_at |-> Key(nowv), status |-> Key(200), error |-> Absent]]

\* an error record that names every key
error_result_wipes(url, nowv) ==
  [url |-> url, content |-> <<>>,
   meta |-> [etag |-> Key(None), last_modified |-> Key(None),
             fetched_at |-> Key(nowv), status |-> Key(None),
             error |-> Key("err")]]

\* fetch_feed: except Exception
error_result(url, nowv) ==
  [url |-> url, content |-> <<>>,
   meta |-> [NoRecord EXCEPT !.error = Key("err"), !.fetched_at = Key(nowv)]]

\* a fetch task: its state, the record and request fields fetch_feed built,
\* its result; and, as history, how the fetch ended and when
NoTask == [st |-> "none", meta |-> NoRecord, headers |-> request_headers(NoRecord),
           res |-> not_modified_result(0, NoRecord), outcome |-> "none", at |-> 0]

----------------------------------------------------------------------------
VARIABLES
  now,        \* the wall clock, as _now_ts() reads it
  content,    \* what each feed address serves
  rules,      \* the compiled rules of the keyword file
  stateFile,  \* STATE_FILE on disk
  pc,         \* where the running process is; "idle" between runs
  state,      \* the in-memory dedup state of the run
  hits,       \* the run's matches, in order
  now_ts,     \* process(): the timestamp taken at its start
  idx,        \* the position of the loop over feeds
  cacheFile,  \* CACHE_FILE on disk
  cache,      \* the in-memory cache of the run
  task,       \* main_async: the fetch task of each feed
  cutoff_ts,  \* main_async: the age horizon of the run
  runs,       \* how many runs of rss_watcher_fast.py have started
  rec,        \* history: (feed, fingerprint) recorded and not evicted since
  rec0,       \* history: rec at the start of the current run
  kept,       \* history: the latest run's eviction dropped no fingerprint
  gotAll,     \* history: the current run has parsed every feed it came to
  same,       \* history: the pipeline whose previous run parsed every feed,
              \* none of which changed since; "no" otherwise
  exit,       \* history: how the latest process ended
  found,      \* history: the kind of each file the latest run found at start
  utc_offset, \* the local zone of the process, in seconds east of UTC
  call        \* one call of a pure function: its name, argument and result

vars == <<now, content, rules, stateFile, pc, state, hits, now_ts, idx,
          cacheFile, cache, task, cutoff_ts, runs, rec, rec0, kept, gotAll,
          same, exit, found, utc_offset, call>>

envVars == <<now, content, rules, utc_offset, call>>
histVars == <<rec, rec0, kept, gotAll, same, exit, found>>
slowVars == <<state, hits, now_ts, idx>>
fastVars == <<cacheFile, cache, task, cutoff_ts, runs>>

\* no pure function is being called
NoCall == [fn |-> "none", arg |-> <<>>, ret |-> <<>>, done |-> TRUE]

Pairs(f, items) == { <<f, id>> : id \in IdsOf(items) }
SeenPairs(st) == UNION { Pairs(f, st.seen[f]) : f \in Feeds }
HitPairs(hs) == { <<hs[i].f, hs[i].id>> : i \in DOMAIN hs }

InitProgram ==
  /\ now = 0
  /\ content = [f \in Feeds |-> <<>>]
  /\ rules \in RuleChoices
  /\ stateFile = NoFile(DefaultState)
  /\ pc = "idle"
  /\ state = DefaultState
  /\ hits = <<>>
  /\ now_ts = 0
  /\ idx = 1
  /\ cacheFile = NoFile(NoCache)
  /\ cache = NoCache
  /\ task = [f \in Feeds |-> NoTask]
  /\ cutoff_ts = 0
  /\ runs = 0
  /\ rec = {}
  /\ rec0 = {}
  /\ kept = TRUE
  /\ gotAll = TRUE
  /\ same = "no"
  /\ exit = "none"
  /\ found = [state |-> "none", cache |-> "none"]
  /\ utc_offset = 0

Init == InitProgram /\ call = NoCall

----------------------------------------------------------------------------
(* Environment *)

\* the clock, read at the grain of a day
Tick ==
  /\ now \div SecondsPerDay < MaxDays
  /\ now' = now + SecondsPerDay
  /\ UNCHANGED <<content, rules, utc_offset, call, stateFile, pc, slowVars,
                 fastVars, histVars>>

\* a publisher puts out the next entry of a feed (between runs: every run
\* reads each feed once)
Publish ==
  /\ pc = "idle"
  /\ \E f \in Feeds :
       /\ Len(content[f]) < Len(Stream)
       /\ content' = [content EXCEPT ![f] = Served(Len(content[f]) + 1)]
       /\ same' = "no"
  /\ UNCHANGED <<now, rules, utc_offset, call, stateFile, pc, slowVars, fastVars>>
  /\ UNCHANGED <<rec, rec0, kept, gotAll, exit, found>>

----------------------------------------------------------------------------
(* rss_watcher.py *)

\* main: load_state; process: now_ts, hits
SlowStart ==
  /\ pc = "idle"
  /\ state' = load_state(stateFile)
  /\ now_ts' = now
  /\ hits' = <<>>
  /\ idx' = 1
  /\ pc' = "s_process"
  /\ rec0' = rec
  /\ gotAll' = TRUE
  /\ found' = [state |-> stateFile.kind, cache |-> "unread"]
  /\ UNCHANGED <<envVars, stateFile, fastVars, rec, kept, same, exit>>

\* process: one turn of  for f in feeds
SlowProcess ==
  /\ pc = "s_process"
  /\ LET f == feeds[idx] IN
     \E fetched \in BOOLEAN :
       LET entries == IF fetched THEN content[f] ELSE <<>>
           r == SlowLoop(entries, f, state.seen[f], hits, rules, now_ts)
       IN /\ state' = [state EXCEPT !.seen[f] = r.seen]
          /\ hits' = r.hits
          /\ rec' = rec \cup (Pairs(f, r.seen) \ Pairs(f, state.seen[f]))
          /\ gotAll' = (gotAll /\ fetched)
  /\ idx' = idx + 1
  /\ pc' = IF idx = NumFeeds THEN "s_prune" ELSE pc
  /\ UNCHANGED <<envVars, stateFile, now_ts, fastVars, rec0, kept, same, exit,
                 found>>

\* main: state["last_run"] = _now_ts(); prune_state(state)
SlowPrune ==
  /\ pc = "s_prune"
  /\ LET st == prune_state([state EXCEPT !.last_run = now], now)
     IN /\ state' = st
        /\ kept' = (SeenPairs(st) = SeenPairs(state))
        /\ rec' = rec \ (SeenPairs(state) \ SeenPairs(st))
  /\ pc' = "s_save"
  /\ UNCHANGED <<envVars, stateFile, hits, now_ts, idx, fastVars, rec0, gotAll,
                 same, exit, found>>

\* a save put off until after the notifier
SlowSaveLate ==
  /\ pc = "s_save"
  /\ pc' = "s_notify"
  /\ UNCHANGED <<envVars, stateFile, slowVars, fastVars, histVars>>

\* main: save_state(state)
SlowSave ==
  /\ pc = "s_save"
  /\ stateFile' = save_state(state)
  /\ pc' = "s_notify"
  /\ UNCHANGED <<envVars, slowVars, fastVars, histVars>>

\* main: send_email(subject, html_body) when count > 0; the process ends and
\* its memory with it
SlowNotify ==
  /\ pc = "s_notify"
  /\ pc' = "idle"
  /\ state' = DefaultState
  /\ hits' = <<>>
  /\ now_ts' = 0
  /\ idx' = 1
  /\ same' = IF gotAll THEN "slow" ELSE "no"
  /\ gotAll' = TRUE
  /\ exit' = "ok"
  /\ UNCHANGED <<envVars, stateFile, fastVars, rec, rec0, kept, found>>

----------------------------------------------------------------------------
(* rss_watcher_fast.py *)

InFlight == { f \in Feeds : task[f].st = "inflight" }

\* cli: load_json twice; main_async: the semaphore and one task per feed
FastStart ==
  /\ pc = "idle"
  /\ runs < MaxRuns
  /\ runs' = runs + 1
  /\ state' = load_json(stateFile, DefaultState)
  /\ cache' = load_json(cacheFile, NoCache)
  /\ task' = [f \in Feeds |-> [NoTask EXCEPT !.st = "waiting"]]
  /\ hits' = <<>>
  /\ pc' = "f_fetch"
  /\ rec0' = rec
  /\ gotAll' = TRUE
  /\ found' = [state |-> stateFile.kind, cache |-> cacheFile.kind]
  /\ UNCHANGED <<envVars, stateFile, now_ts, idx, cacheFile, cutoff_ts, rec,
                 kept, same, exit>>

\* a semaphore that a fetch ending in an exception does not release
sem_leaks ==
  Cardinality(InFlight \cup { f \in Feeds : /\ task[f].st = "done"
                                            /\ task[f].outcome = "error" })
    < MAX_CONCURRENCY

\* no semaphore
sem_always == TRUE

\* run(u): async with sem
sem_free == Cardinality(InFlight) < MAX_CONCURRENCY

\* run(u) enters the semaphore; fetch_feed builds and sends the request
FetchBegin(f) ==
  /\ pc = "f_fetch"
  /\ task[f].st = "waiting"
  /\ sem_free
  /\ LET meta == cache[feeds[f]]
     IN task' = [task EXCEPT ![f].st = "inflight", ![f].meta = meta,
                              ![f].headers = request_headers(meta)]
  /\ UNCHANGED <<envVars, stateFile, pc, slowVars, cacheFile, cache, cutoff_ts,
                 runs, histVars>>

\* the server holds the validators the request replays
validators_current(f) ==
  \/ task[f].headers.if_none_match = Key(ETagOf(content[f]))
  \/ task[f].headers.if_modified_since = Key(LastModifiedOf(content[f]))

\* fetch_feed returns: 304, a read body, or an exception (timeout, network)
FetchEnd(f) ==
  /\ pc = "f_fetch"
  /\ task[f].st = "inflight"
  /\ \E o \in {"error", "fresh"}
             \cup (IF validators_current(f) THEN {"not_modified"} ELSE {}) :
       LET res ==
             CASE o = "error" -> error_result(feeds[f], now)
               [] o = "not_modified" ->
                    not_modified_result(feeds[f], task[f].meta)
               [] o = "fresh" ->
                    fresh_result(feeds[f], content[f],
                      IF SendsValidators(f) THEN ETagOf(content[f]) ELSE None,
                      IF SendsValidators(f) THEN LastModifiedOf(content[f])
                                            ELSE None,
                      now)
       IN task' = [task EXCEPT ![f].st = "done", ![f].res = res,
                                ![f].outcome = o, ![f].at = now]
  /\ UNCHANGED <<envVars, stateFile, pc, slowVars, cacheFile, cache, cutoff_ts,
                 runs, histVars>>

\* a wait that returns at the first finished task
any_done == \E f \in Feeds : task[f].st = "done"

\* asyncio.gather(*tasks) returns once every task is done
all_done == \A f \in Feeds : task[f].st = "done"

\* main_async resumes after the gather; cutoff_ts is taken
FastGather ==
  /\ pc = "f_fetch"
  /\ all_done
  /\ cutoff_ts' = now - MAX_ENTRY_AGE_DAYS * SecondsPerDay
  /\ idx' = 1
  /\ pc' = "f_merge"
  /\ UNCHANGED <<envVars, stateFile, state, hits, now_ts, cacheFile, cache, task,
                 runs, histVars>>

\* a merge keyed by the address the response came from
zip_final_url(res, i) == res.url

\* zip(results, feeds): the i-th result goes with the i-th configured address
zip_orig(res, i) == feeds[i]

\* one turn of  for (final_url, content, meta), orig in zip(results, feeds)
FastMerge ==
  /\ pc = "f_merge"
  /\ LET orig == zip_orig(task[idx].res, idx)
         res == task[idx].res
         entries == IF res.content = <<>> THEN <<>> ELSE res.content[1]
         r == FastLoop(entries, orig, state.seen[orig], hits, rules, cutoff_ts,
                       utc_offset, now)
     IN /\ cache' = [cache EXCEPT ![orig] = merge(cache[orig], res.meta)]
        /\ state' = [state EXCEPT !.seen[orig] = r.seen]
        /\ hits' = r.hits
        /\ rec' = rec \cup (Pairs(orig, r.seen) \ Pairs(orig, state.seen[orig]))
        /\ gotAll' = (gotAll /\ res.content # <<>>)
  /\ idx' = idx + 1
  /\ pc' = IF idx = NumFeeds THEN "f_save_state" ELSE pc
  /\ UNCHANGED <<envVars, stateFile, now_ts, cacheFile, task, cutoff_ts, runs,
                 rec0, kept, same, exit, found>>

\* cli: state["last_run"] = _now_ts(); save_json(STATE_FILE, state)
FastSaveState ==
  /\ pc = "f_save_state"
  /\ state' = [state EXCEPT !.last_run = now]
  /\ stateFile' = save_json(state')
  /\ kept' = TRUE
  /\ pc' = "f_save_cache"
  /\ UNCHANGED <<envVars, hits, now_ts, idx, fastVars, rec, rec0, gotAll, same,
                 exit, found>>

\* cli: save_json(CACHE_FILE, cache)
FastSaveCache ==
  /\ pc = "f_save_cache"
  /\ cacheFile' = save_json(cache)
  /\ pc' = "f_notify"
  /\ UNCHANGED <<envVars, stateFile, slowVars, cache, task, cutoff_ts, runs,
                 histVars>>

\* cli: send_email(subject, body) when count > 0; the process ends
FastNotify ==
  /\ pc = "f_notify"
  /\ pc' = "idle"
  /\ state' = DefaultState
  /\ hits' = <<>>
  /\ idx' = 1
  /\ cache' = NoCache
  /\ task' = [f \in Feeds |-> NoTask]
  /\ cutoff_ts' = 0
  /\ same' = IF gotAll THEN "fast" ELSE "no"
  /\ gotAll' = TRUE
  /\ exit' = "ok"
  /\ UNCHANGED <<envVars, stateFile, now_ts, cacheFile, runs, rec, rec0, kept,
                 found>>

----------------------------------------------------------------------------
NextSlow ==
  \/ Tick
  \/ Publish
  \/ SlowStart
  \/ SlowProcess
  \/ SlowPrune
  \/ SlowSave
  \/ SlowNotify

SpecSlow == Init /\ [][NextSlow]_vars

NextFast ==
  \/ Tick
  \/ Publish
  \/ FastStart
  \/ \E f \in Feeds : FetchBegin(f)
  \/ \E f \in Feeds : FetchEnd(f)
  \/ FastGather
  \/ FastMerge
  \/ FastSaveState
  \/ FastSaveCache
  \/ FastNotify

SpecFast == Init /\ [][NextFast]_vars

----------------------------------------------------------------------------
(* Progress of the fetch phase.  The event loop runs every task that can    *)
(* run: one waiting on the semaphore gets it once it is free, and the       *)
(* gather returns once its tasks are done.  Every request sent returns,     *)
(* with an answer or with the exception of its timeout (REQ_TIMEOUT).       *)

\* the runs of one day
NextFastLive ==
  \/ Publish
  \/ FastStart
  \/ \E f \in Feeds : FetchBegin(f)
  \/ \E f \in Feeds : FetchEnd(f)
  \/ FastGather
  \/ FastMerge
  \/ FastSaveState
  \/ FastSaveCache
  \/ FastNotify

FairFetch ==
  /\ \A f \in Feeds : WF_vars(FetchBegin(f))
  /\ \A f \in Feeds : WF_vars(FetchEnd(f))
  /\ WF_vars(FastGather)

SpecFastLive == Init /\ [][NextFastLive]_vars /\ FairFetch

----------------------------------------------------------------------------
(* rss_watcher.py: runs that do not end normally *)

\* the process is gone and its memory with it; the files stay as they are
SlowGone(how) ==
  /\ pc' = "idle"
  /\ state' = DefaultState
  /\ hits' = <<>>
  /\ now_ts' = 0
  /\ idx' = 1
  /\ same' = "no"
  /\ gotAll' = TRUE
  /\ exit' = how
  /\ UNCHANGED <<envVars, fastVars, rec0, kept, found>>

\* the process is killed while it fetches, matches or prunes
SlowKilled ==
  /\ pc \in {"s_process", "s_prune"}
  /\ rec' = SeenPairs(load_state(stateFile))
  /\ UNCHANGED stateFile
  /\ SlowGone("killed")

\* save_state: mkdir or write_text raises OSError, or the process is killed in
\* it; write_text truncates the file before it writes the text
SlowSaveFails ==
  /\ pc = "s_save"
  /\ \E how \in {"write", "killed"} :
     \E file \in {stateFile, TornFile(state)} :
       /\ stateFile' = file
       /\ rec' = SeenPairs(load_state(file))
       /\ SlowGone(how)

\* send_email raises (smtplib errors are not caught), or the process is killed
\* while or after it sends
SlowNotifyFails ==
  /\ pc = "s_notify"
  /\ \E how \in {"notify", "killed"} : SlowGone(how)
  /\ UNCHANGED <<stateFile, rec>>

NextSlowFaults ==
  \/ NextSlow
  \/ SlowKilled
  \/ SlowSaveFails
  \/ SlowNotifyFails

SpecSlowFaults == Init /\ [][NextSlowFaults]_vars

----------------------------------------------------------------------------
(* rss_watcher_fast.py: runs that do not end normally, bodies that do not parse *)

FastGone(how) ==
  /\ pc' = "idle"
  /\ state' = DefaultState
  /\ hits' = <<>>
  /\ idx' = 1
  /\ cache' = NoCache
  /\ task' = [f \in Feeds |-> NoTask]
  /\ cutoff_ts' = 0
  /\ same' = "no"
  /\ gotAll' = TRUE
  /\ exit' = how
  /\ UNCHANGED <<envVars, now_ts, runs, rec0, kept, found>>

\* one turn of the result loop over a body in which feedparser.parse finds no
\* entry (malformed content): the record is merged, then  continue
FastMergeUnparsed ==
  /\ pc = "f_merge"
  /\ task[idx].res.content # <<>>
  /\ LET orig == feeds[idx]
     IN cache' = [cache EXCEPT ![orig] = merge(cache[orig], task[idx].res.meta)]
  /\ task' = [task EXCEPT ![idx].outcome = "unparsed"]
  /\ gotAll' = FALSE
  /\ idx' = idx + 1
  /\ pc' = IF idx = NumFeeds THEN "f_save_state" ELSE pc
  /\ UNCHANGED <<envVars, stateFile, state, hits, now_ts, cacheFile, cutoff_ts,
                 runs, rec, rec0, kept, same, exit, found>>

\* feedparser.parse(content) or time.mktime raises in the result loop: nothing
\* catches it in main_async or cli
FastParseRaises ==
  /\ pc = "f_merge"
  /\ task[idx].res.content # <<>>
  /\ rec' = SeenPairs(load_json(stateFile, DefaultState))
  /\ UNCHANGED <<stateFile, cacheFile>>
  /\ FastGone("parse")

\* save_json(STATE_FILE, state) raises OSError: at mkdir or open, or in the
\* write, after the file was truncated
FastSaveStateFails ==
  /\ pc = "f_save_state"
  /\ \E file \in {stateFile, TornFile([state EXCEPT !.last_run = now])} :
       /\ stateFile' = file
       /\ rec' = SeenPairs(load_json(file, DefaultState))
  /\ FastGone("write")
  /\ UNCHANGED cacheFile

\* save_json(CACHE_FILE, cache) raises OSError
FastSaveCacheFails ==
  /\ pc = "f_save_cache"
  /\ \E file \in {cacheFile, TornFile(cache)} : cacheFile' = file
  /\ FastGone("write")
  /\ UNCHANGED <<stateFile, rec>>

\* send_email raises
FastNotifyFails ==
  /\ pc = "f_notify"
  /\ FastGone("notify")
  /\ UNCHANGED <<stateFile, cacheFile, rec>>

\* the runs of one day: the clock stays within its day
NextFastFaults ==
  \/ Publish
  \/ FastStart
  \/ \E f \in Feeds : FetchBegin(f)
  \/ \E f \in Feeds : FetchEnd(f)
  \/ FastGather
  \/ FastMerge
  \/ FastSaveState
  \/ FastSaveCache
  \/ FastNotify
  \/ FastMergeUnparsed
  \/ FastParseRaises
  \/ FastSaveStateFails
  \/ FastSaveCacheFails
  \/ FastNotifyFails

SpecFastFaults == Init /\ [][NextFastFaults]_vars

----------------------------------------------------------------------------
(* The host's time zone.  feedparser gives published_parsed in UTC, and     *)
(* time.mktime reads a struct_time as local time, so the seconds main_async *)
(* compares with cutoff_ts are off by the zone's distance from UTC.         *)

\* seconds east of UTC: UTC, and UTC+7
Zones == {0, 7 * 3600}

\* the TZ of the host the next run starts on
SetZone ==
  /\ pc = "idle"
  /\ \E z \in Zones \ {utc_offset} : utc_offset' = z
  /\ UNCHANGED <<now, content, rules, call, stateFile, pc, slowVars, fastVars,
                 histVars>>

\* the runs of one day, on hosts of either zone
NextFastZone ==
  \/ SetZone
  \/ Publish
  \/ FastStart
  \/ \E f \in Feeds : FetchBegin(f)
  \/ \E f \in Feeds : FetchEnd(f)
  \/ FastGather
  \/ FastMerge
  \/ FastSaveState
  \/ FastSaveCache
  \/ FastNotify

SpecFastZone == Init /\ [][NextFastZone]_vars

----------------------------------------------------------------------------
(* Redirects.  session.get follows redirects (allow_redirects=True) and     *)
(* fetch_feed returns str(resp.url), the address the body came from.        *)

\* the server of feed f redirects to the address of another configured feed,
\* whose server answers with its own body and validators
FetchRedirected(f) ==
  /\ pc = "f_fetch"
  /\ task[f].st = "inflight"
  /\ \E g \in Feeds \ {f} :
       LET res == fresh_result(feeds[g], content[g],
                    IF SendsValidators(g) THEN ETagOf(content[g]) ELSE None,
                    IF SendsValidators(g) THEN LastModifiedOf(content[g])
                                          ELSE None,
                    now)
       IN task' = [task EXCEPT ![f].st = "done", ![f].res = res,
                                ![f].outcome = "redirected", ![f].at = now]
  /\ UNCHANGED <<envVars, stateFile, pc, slowVars, cacheFile, cache, cutoff_ts,
                 runs, histVars>>

\* the clock moves on while fetches are under way
FetchTick == pc = "f_fetch" /\ Tick

NextFastRedirect ==
  \/ FetchTick
  \/ Publish
  \/ FastStart
  \/ \E f \in Feeds : FetchBegin(f)
  \/ \E f \in Feeds : FetchEnd(f)
  \/ \E f \in Feeds : FetchRedirected(f)
  \/ FastGather
  \/ FastMerge
  \/ FastSaveState
  \/ FastSaveCache
  \/ FastNotify

SpecFastRedirect == Init /\ [][NextFastRedirect]_vars

----------------------------------------------------------------------------
(* The first run with STATE_INIT_IF_EMPTY=1 (rss_watcher.py): the current   *)
(* entries are recorded as seen and nothing is sent.                        *)

\* an initialisation that records the newest entry of a feed only
init_items_first(entries, feed_seen, nowv) ==
  IF entries = <<>> THEN feed_seen
  ELSE PutId(feed_seen, norm_id(Head(entries)), nowv)

\* for e in d.entries: feed_seen[norm_id(e)] = now_ts
RECURSIVE init_items(_, _, _)
init_items(entries, feed_seen, nowv) ==
  IF entries = <<>> THEN feed_seen
  ELSE init_items(Tail(entries),
                  PutId(feed_seen, norm_id(Head(entries)), nowv), nowv)

\* main: load_state; first_time and STATE_INIT_IF_EMPTY.  The clock reads
\* later than the epoch, so a saved last_run is never 0.
SlowInitStart ==
  /\ pc = "idle"
  /\ now > 0
  /\ load_state(stateFile).last_run = 0
  /\ state' = load_state(stateFile)
  /\ hits' = <<>>
  /\ idx' = 1
  /\ pc' = "i_process"
  /\ rec0' = rec
  /\ gotAll' = TRUE
  /\ found' = [state |-> stateFile.kind, cache |-> "unread"]
  /\ UNCHANGED <<envVars, stateFile, now_ts, fastVars, rec, kept, same, exit>>

\* main: one turn of  for f in feeds  of the initialisation
SlowInitProcess ==
  /\ pc = "i_process"
  /\ LET f == feeds[idx] IN
     \E fetched \in BOOLEAN :
       LET entries == IF fetched THEN content[f] ELSE <<>>
           items == init_items(entries, state.seen[f], now)
       IN /\ state' = [state EXCEPT !.seen[f] = items]
          /\ rec' = rec \cup Pairs(f, items)
          /\ gotAll' = (gotAll /\ fetched)
  /\ now_ts' = now
  /\ idx' = idx + 1
  /\ pc' = IF idx = NumFeeds THEN "i_save" ELSE pc
  /\ UNCHANGED <<envVars, stateFile, hits, fastVars, rec0, kept, same, exit,
                 found>>

\* main: last_run, prune_state, save_state, sys.exit(0)
SlowInitSave ==
  /\ pc = "i_save"
  /\ LET st == prune_state([state EXCEPT !.last_run = now], now)
     IN /\ stateFile' = save_state(st)
        /\ kept' = (SeenPairs(st) = SeenPairs(state))
        /\ rec' = rec \ (SeenPairs(state) \ SeenPairs(st))
  /\ pc' = "idle"
  /\ state' = DefaultState
  /\ hits' = <<>>
  /\ now_ts' = 0
  /\ idx' = 1
  /\ same' = IF gotAll THEN "init" ELSE "no"
  /\ gotAll' = TRUE
  /\ exit' = "ok"
  /\ UNCHANGED <<envVars, fastVars, rec0, found>>

\* a later run, in either setting of STATE_INIT_IF_EMPTY
SlowStartLater == now > 0 /\ SlowStart

NextFirstRun ==
  \/ Tick
  \/ Publish
  \/ SlowInitStart
  \/ SlowInitProcess
  \/ SlowInitSave
  \/ SlowStartLater
  \/ SlowProcess
  \/ SlowPrune
  \/ SlowSave
  \/ SlowNotify

SpecFirstRun == Init /\ [][NextFirstRun]_vars

----------------------------------------------------------------------------
(* Runs with a configuration problem: fewer than two arguments, or a feed   *)
(* list that is not well-formed XML.  Each is one whole run.                *)

\* main, cli: len(sys.argv) < 3: usage, sys.exit(2)
SlowUsage ==
  /\ pc = "idle"
  /\ exit' = "config"
  /\ same' = "no"
  /\ UNCHANGED <<envVars, stateFile, pc, slowVars, fastVars, rec, rec0, kept,
                 gotAll, found>>

FastUsage ==
  /\ pc = "idle"
  /\ runs < MaxRuns
  /\ runs' = runs + 1
  /\ exit' = "config"
  /\ same' = "no"
  /\ UNCHANGED <<envVars, stateFile, pc, slowVars, cacheFile, cache, task,
                 cutoff_ts, rec, rec0, kept, gotAll, found>>

\* rss_watcher_fast.py: ET.parse raises in parse_opml, nothing catches it
FastOpmlUnreadable ==
  /\ pc = "idle"
  /\ runs < MaxRuns
  /\ runs' = runs + 1
  /\ exit' = "config"
  /\ same' = "no"
  /\ found' = [state |-> "unread", cache |-> "unread"]
  /\ UNCHANGED <<envVars, stateFile, pc, slowVars, cacheFile, cache, task,
                 cutoff_ts, rec, rec0, kept, gotAll>>

\* rss_watcher.py: parse_opml catches the error of ET.parse and returns [];
\* main goes on with no feeds: load_state, process over nothing, last_run,
\* prune_state, save_state, "No new matching items."
SlowOpmlUnreadable ==
  /\ pc = "idle"
  /\ LET loaded == load_state(stateFile)
         st == prune_state([loaded EXCEPT !.last_run = now], now)
     IN /\ stateFile' = save_state(st)
        /\ kept' = (SeenPairs(st) = SeenPairs(loaded))
        /\ rec' = rec \ (SeenPairs(loaded) \ SeenPairs(st))
  /\ rec0' = rec
  /\ found' = [state |-> stateFile.kind, cache |-> "unread"]
  /\ exit' = "ok"
  /\ same' = "no"
  /\ UNCHANGED <<envVars, pc, slowVars, fastVars, gotAll>>

NextConfig ==
  \/ NextSlow
  \/ SlowUsage
  \/ FastUsage
  \/ FastOpmlUnreadable
  \/ SlowOpmlUnreadable

SpecConfig == Init /\ [][NextConfig]_vars

----------------------------------------------------------------------------
(* Calls of the pure functions, one per behaviour, on inputs drawn at the   *)
(* start                                                                    *)

StringsUpTo(alphabet, n) == UNION { [1..k -> alphabet] : k \in 0..n }

MaxTextLen == 3
MaxLineLen == 3

\* keyword lines
LineAiOrStartup ==
  <<"a", "i", " ", "O", "R", " ", "s", "t", "a", "r", "t", "u", "p">>
LineGiaDauAndXang ==
  <<"g", "i", "a", " ", "d", "a", "u", " ", "A", "N", "D", " ", "x", "a",
    "n", "g">>
LineQuoted ==
  <<"\"", "b", " ", "o", "\"", " ", "o", "r", " ", "B", " ", "A", "n", "d",
    " ", "R">>
LineComment ==
  <<"#", " ", "b">>
LineOrOr ==
  <<"b", " ", "O", "R", " ", "O", "R", " ", "\"", "o", "\"">>
LineAnd ==
  <<"a", "n", "d">>

\* texts
TextStartup ==
  <<"S", "t", "a", "r", "t", "u", "p", " ", "h", "u", "y", " ", "d", "o",
    "n", "g", " ", "v", "o", "n", " ", "A", "I">>
TextGiaDau ==
  <<"g", "i", "a", " ", "d", "a", "u", " ", "t", "a", "n", "g", " ", "m",
    "a", "n", "h">>

MatchTexts ==
  StringsUpTo({"a", "B", "c"}, MaxTextLen) \cup {TextStartup, TextGiaDau}

MatchRules ==
  { <<>>,
    << << <<"a">> >> >>,
    << << <<"a">>, <<"b">> >> >>,
    << << <<"a", "b">> >> >>,
    << << <<"a", "c">> >>, << <<"b">> >> >>,
    << << <<"a", "b">>, <<"c">> >> >>,
    parse_rules(<<LineAiOrStartup, LineGiaDauAndXang>>),
    parse_rules(<<LineGiaDauAndXang>>) }

RuleFiles ==
  { <<l>> : l \in StringsUpTo({"o", "R", " ", "\"", "#", "b"}, MaxLineLen) }
    \cup { <<>>,
           <<LineAiOrStartup, LineGiaDauAndXang>>,
           <<LineQuoted>>,
           <<LineComment, <<>>, LineOrOr>>,
           <<LineAnd, LineQuoted>> }

\* entries as the parser hands them over, and a second parse of the same
\* content that differs at most in the fields norm_id does not read
IdEntries ==
  [id : {<<>>, <<"a">>}, guid : {<<>>, <<"g">>}, link : {<<>>, <<"b">>},
   title : {<<>>, <<"t">>}, summary : {<<>>}, published : {<<>>, <<"d">>},
   published_parsed : {<<>>}]

Reparsed(e) ==
  { e, [e EXCEPT !.summary = <<"z">>], [e EXCEPT !.published_parsed = <<0>>] }

\* feed contents that repeat a fingerprint: the entry "a" under two titles,
\* with and without a publish time older than the cutoff, and the entry "b"
MaxEntries == 3

LoopEntries ==
  { [EA EXCEPT !.title = t, !.published_parsed = p] :
      t \in {<<"X">>, <<"y">>}, p \in {<<>>, <<0 - 200000>>} } \cup {EB}

LoopContents == UNION { [1..k -> LoopEntries] : k \in 1..MaxEntries }

\* what the feed's seen dict holds when the loop starts
LoopSeen == { <<>>, <<[id |-> <<"a">>, ts |-> 0 - 1]>> }

NewCall(fn, arg) == [fn |-> fn, arg |-> arg, ret |-> <<>>, done |-> FALSE]

Calls ==
  { NewCall("text_matches", <<t, r>>) : t \in MatchTexts, r \in MatchRules }
    \cup { NewCall("parse_rules", ls) : ls \in RuleFiles }
    \cup { NewCall(fn, <<c, fs>>) :
             fn \in {"main_async", "process"}, c \in LoopContents,
             fs \in LoopSeen }
    \cup UNION { { NewCall("norm_id", <<e, d>>) : d \in Reparsed(e) } :
                  e \in IdEntries }

programVars ==
  <<now, content, rules, utc_offset, stateFile, pc, state, hits, now_ts, idx,
    cacheFile, cache, task, cutoff_ts, runs, rec, rec0, kept, gotAll, same,
    exit, found>>

InitPure == InitProgram /\ call \in Calls

CallTextMatches ==
  /\ call.fn = "text_matches"
  /\ ~call.done
  /\ call' = [call EXCEPT !.ret = text_matches(call.arg[1], call.arg[2]),
                          !.done = TRUE]
  /\ UNCHANGED programVars

CallParseRules ==
  /\ call.fn = "parse_rules"
  /\ ~call.done
  /\ call' = [call EXCEPT !.ret = parse_rules(call.arg), !.done = TRUE]
  /\ UNCHANGED programVars

CallNormId ==
  /\ call.fn = "norm_id"
  /\ ~call.done
  /\ call' = [call EXCEPT !.ret = <<norm_id(call.arg[1]), norm_id(call.arg[2])>>,
                          !.done = TRUE]
  /\ UNCHANGED programVars

\* the entry loop of main_async over one feed's parsed content
CallFastLoop ==
  /\ call.fn = "main_async"
  /\ ~call.done
  /\ call' = [call EXCEPT
                !.ret = FastLoop(call.arg[1], 1, call.arg[2], <<>>, rules,
                                 now - MAX_ENTRY_AGE_DAYS * SecondsPerDay,
                                 utc_offset, now),
                !.done = TRUE]
  /\ UNCHANGED programVars

\* the entry loop of process over one feed's parsed content
CallSlowLoop ==
  /\ call.fn = "process"
  /\ ~call.done
  /\ call' = [call EXCEPT
                !.ret = SlowLoop(call.arg[1], 1, call.arg[2], <<>>, rules, now),
                !.done = TRUE]
  /\ UNCHANGED programVars

NextPure ==
  \/ CallTextMatches
  \/ CallParseRules
  \/ CallNormId
  \/ CallFastLoop
  \/ CallSlowLoop

SpecPure == InitPure /\ [][NextPure]_vars

----------------------------------------------------------------------------
(* Properties *)

\* what a run starting now would load; until a run saves, what it loaded
OldState == load_json(stateFile, DefaultState)
OldCache == load_json(cacheFile, NoCache)

\* the dedup state has_seen answers from: the run's memory, or the file
Store == IF pc = "idle" THEN load_state(stateFile) ELSE state

Matching(e) == text_matches(combined(e), rules)

\* C1: across runs, a fingerprint recorded as seen for a feed and not evicted
\* since is never among the matches a later run hands to the notifier.
C1_NoRepeat ==
  \A i \in DOMAIN hits : <<hits[i].f, hits[i].id>> \notin rec0

\* a later run met an entry recorded by an earlier run, and reported others
C1_Witness ==
  /\ pc = "s_prune"
  /\ gotAll
  /\ hits # <<>>
  /\ \E f \in Feeds : \E i \in DOMAIN content[f] :
       <<f, norm_id(content[f][i])>> \in rec0

\* C2 as stated: a second run of rss_watcher.py over unchanged feeds, from
\* the state the first run saved, has no match.
C2_Idempotent ==
  (pc = "s_prune" /\ same = "slow") => hits = <<>>

\* C2 amended: a second run over unchanged feeds has no match when the first
\* run's eviction dropped no fingerprint.
C2_IdempotentIfKept ==
  (pc = "s_prune" /\ same = "slow" /\ kept) => hits = <<>>

\* the second run parsed every feed, matching entries among them, none new
C2_Witness ==
  /\ pc = "s_prune"
  /\ same = "slow"
  /\ kept
  /\ gotAll
  /\ hits = <<>>
  /\ \E f \in Feeds : \E i \in DOMAIN content[f] : Matching(content[f][i])

\* the retention window of a fingerprint marked at t is over at nowv
Elapsed(t, nowv) == t + STATE_TTL_DAYS * SecondsPerDay < nowv

\* more fingerprints within their window than the per-feed cap
OverCap(items, nowv) ==
  Cardinality({ i \in DOMAIN items : ~Elapsed(items[i].ts, nowv) })
    > STATE_MAX_IDS_PER_FEED

\* C3: has_seen(feed, F) turns false only in a step at which F's retention
\* window is over or the feed holds more fingerprints than the cap; loading,
\* matching, saving and the end of the process never remove a fingerprint.
C3_Permanence ==
  [][ \A f \in Feeds : \A i \in DOMAIN Store.seen[f] :
        LET r == Store.seen[f][i]
        IN ~HasId(Store'.seen[f], r.id) =>
             \/ Elapsed(r.ts, now)
             \/ OverCap(Store.seen[f], now) ]_vars

\* a fingerprint of an earlier day is still held, saved and reloaded, after
\* a run whose eviction dropped another
C3_Witness ==
  /\ pc = "idle"
  /\ ~kept
  /\ \E f \in Feeds : \E i \in DOMAIN Store.seen[f] :
       Store.seen[f][i].ts < Store.last_run

EvictionBound(st, nowv) ==
  \A f \in Feeds :
    /\ Len(st.seen[f]) <= STATE_MAX_IDS_PER_FEED
    /\ \A i \in DOMAIN st.seen[f] :
         st.seen[f][i].ts >= nowv - STATE_TTL_DAYS * SecondsPerDay

\* C4: right after prune_state every feed holds at most the cap of
\* fingerprints, none stamped earlier than now minus the retention window.
C4_EvictionBound ==
  [][ (pc = "s_prune" /\ pc' = "s_save") => EvictionBound(state', now) ]_vars

\* an eviction that dropped a fingerprint and kept another
C4_Witness ==
  /\ pc = "s_save"
  /\ ~kept
  /\ \E f \in Feeds : state.seen[f] # <<>>

\* C5: every run evicts before it persists, so a dedup state written to disk
\* satisfies the eviction bound as of the run's last_run stamp.
C5_PersistedBound ==
  [][ stateFile' # stateFile =>
        EvictionBound(stateFile'.data, stateFile'.data.last_run) ]_vars

\* C6: at most MAX_CONCURRENCY fetches are in flight at any moment.
C6_BoundedFetches == Cardinality(InFlight) <= MAX_CONCURRENCY

\* the limit is reached while a further fetch waits
C6_Witness ==
  /\ Cardinality(InFlight) = MAX_CONCURRENCY
  /\ \E f \in Feeds : task[f].st = "waiting"

\* C7: while any fetch has not produced its result, the run is in its fetch
\* phase, its cache and dedup state are as loaded and nothing was matched.
C7_ForkJoin ==
  (\E f \in Feeds : task[f].st \in {"waiting", "inflight"}) =>
     /\ pc = "f_fetch"
     /\ cache = OldCache
     /\ state = OldState
     /\ hits = <<>>

\* one fetch has returned a body while another is still in flight
C7_Witness ==
  /\ InFlight # {}
  /\ \E f \in Feeds :
       /\ task[f].st = "done"
       /\ task[f].res.content # <<>>
       /\ task[f].res.content[1] # <<>>

Failed(f) == task[f].outcome = "error"

\* the matches of the endpoints whose fetch returned a body
ExpectedHits ==
  UNION { { <<f, norm_id(content[f][i])>> :
              i \in { j \in DOMAIN content[f] :
                        /\ ~HasId(OldState.seen[f], norm_id(content[f][j]))
                        /\ ~age_dropped(content[f][j], cutoff_ts, utc_offset)
                        /\ Matching(content[f][j]) } } :
          f \in { g \in Feeds : task[g].outcome = "fresh" } }

\* C8 as stated: after the merge the result holds exactly the matches of the
\* succeeding endpoints, and a failing endpoint's cache record and dedup
\* state are as before the run.
C8_FailureUntouched ==
  pc = "f_save_state" =>
    /\ HitPairs(hits) = ExpectedHits
    /\ \A f \in Feeds : Failed(f) =>
         /\ cache[f] = OldCache[f]
         /\ state.seen[f] = OldState.seen[f]

\* C8 amended: the failing endpoint's record keeps its validators and status,
\* and holds the error and the time of the failed fetch.
C8_FailureIsolated ==
  pc = "f_save_state" =>
    /\ HitPairs(hits) = ExpectedHits
    /\ \A f \in Feeds : Failed(f) =>
         /\ cache[f].etag = OldCache[f].etag
         /\ cache[f].last_modified = OldCache[f].last_modified
         /\ cache[f].status = OldCache[f].status
         /\ cache[f].error # Absent
         /\ cache[f].fetched_at = Key(task[f].at)
         /\ state.seen[f] = OldState.seen[f]

\* an endpoint with stored validators failed, another one gave matches
C8_Witness ==
  /\ pc = "f_save_state"
  /\ hits # <<>>
  /\ \E f \in Feeds : Failed(f) /\ Truthy(OldCache[f].etag)

\* C9: after a fetch answered "not modified" no body came back, no entry of
\* the endpoint was processed, the record's validators are as before and its
\* fetched_at is the time of that fetch.
C9_NotModified ==
  pc = "f_save_state" =>
    \A f \in Feeds : task[f].outcome = "not_modified" =>
      /\ task[f].res.content = <<>>
      /\ state.seen[f] = OldState.seen[f]
      /\ \A i \in DOMAIN hits : hits[i].f # f
      /\ cache[f].etag = OldCache[f].etag
      /\ cache[f].last_modified = OldCache[f].last_modified
      /\ cache[f].fetched_at = Key(task[f].at)

\* C10 as stated: after a failed fetch the record equals the one before the
\* fetch in every field but fetched_at.
C10_OnlyTimestamp ==
  pc = "f_save_state" =>
    \A f \in Feeds : Failed(f) =>
      \A k \in DOMAIN NoRecord \ {"fetched_at"} : cache[f][k] = OldCache[f][k]

\* C10 amended: after a failed fetch the record's validators and status are
\* those before the fetch, in memory after the merge and in the cache file the
\* run leaves behind; and every fetch sends the validators of the record its
\* run loaded as conditional request fields.
C10_ValidatorsRetained ==
  /\ pc = "f_save_state" =>
       \A f \in Feeds : Failed(f) =>
         /\ cache[f].etag = OldCache[f].etag
         /\ cache[f].last_modified = OldCache[f].last_modified
         /\ cache[f].status = OldCache[f].status
  /\ pc = "f_notify" =>
       \A f \in Feeds : Failed(f) =>
         /\ OldCache[f].etag = task[f].meta.etag
         /\ OldCache[f].last_modified = task[f].meta.last_modified
         /\ OldCache[f].status = task[f].meta.status
  /\ pc = "f_fetch" =>
       \A f \in Feeds : task[f].st \in {"inflight", "done"} =>
         /\ Truthy(OldCache[f].etag) =>
              task[f].headers.if_none_match = OldCache[f].etag
         /\ Truthy(OldCache[f].last_modified) =>
              task[f].headers.if_modified_since = OldCache[f].last_modified

\* a fetch that sent the stored validators failed, and the record keeps them
C10_Witness ==
  /\ pc = "f_save_state"
  /\ \E f \in Feeds :
       /\ Failed(f)
       /\ task[f].headers.if_none_match # Absent
       /\ Truthy(cache[f].etag)

\* the entries of the run's matches that the state file holds
Persisted(i) == HasId(load_state(stateFile).seen[hits[i].f], hits[i].id)

\* C11 as stated: when the notifier is invoked every match of the run is in
\* the state file, and no run matches an entry the state file it loaded holds.
C11_PersistedBeforeNotify ==
  /\ pc = "s_notify" => \A i \in DOMAIN hits : Persisted(i)
  /\ pc \in {"s_process", "s_prune"} => \A i \in DOMAIN hits : ~Persisted(i)

\* C11 amended: when the notifier is invoked every match of the run that the
\* run's own eviction kept is in the state file, and no run matches an entry
\* the state file it loaded holds.
C11_KeptPersistedBeforeNotify ==
  /\ pc = "s_notify" =>
       \A i \in DOMAIN hits :
         HasId(state.seen[hits[i].f], hits[i].id) => Persisted(i)
  /\ pc \in {"s_process", "s_prune"} => \A i \in DOMAIN hits : ~Persisted(i)

\* after a run whose notifier failed, the next run has parsed every feed, met
\* an entry the failed run had saved, and matched nothing
C11_Witness ==
  /\ pc = "s_prune"
  /\ exit = "notify"
  /\ gotAll
  /\ hits = <<>>
  /\ \E f \in Feeds : \E i \in DOMAIN content[f] :
       HasId(load_state(stateFile).seen[f], norm_id(content[f][i]))

\* C12: a state file is never left partial or empty: what the next run reads
\* is absent (no run yet) or the whole text of one save.
C12_AtomicReplace ==
  /\ stateFile.kind \in {"missing", "json"}
  /\ cacheFile.kind \in {"missing", "json"}

C14_ParseFailureSkips ==
  pc = "f_save_state" =>
    \A f \in Feeds : task[f].outcome = "unparsed" =>
      /\ cache[f] = OldCache[f]
      /\ state.seen[f] = OldState.seen[f]

\* C20: a process ends in a failure only when a save failed (or the notifier
\* did): never because of one endpoint's fetch or parse.
C20_FailsOnlyOnWrite ==
  exit \in {"none", "ok", "write", "notify"}

\* some Clause has some AndGroup all of whose terms are in the lowercased text
MatchesSpec(rule, text) ==
  \/ rule = <<>>
  \/ \E c \in DOMAIN rule : \E g \in DOMAIN rule[c] :
       \A t \in DOMAIN rule[c][g] : IsSubstr(rule[c][g][t], lower(text))

RuleAiGia == parse_rules(<<LineAiOrStartup, LineGiaDauAndXang>>)
RuleGia == parse_rules(<<LineGiaDauAndXang>>)

\* C15: text_matches returns true iff the rule is empty or some Clause has an
\* AndGroup whose terms are all substrings of the lowercased text; the rules of
\* "ai OR startup", "gia dau AND xang" match "Startup huy dong von AI", and
\* the second line alone does not match "gia dau tang manh".
C15_Matches ==
  (call.fn = "text_matches" /\ call.done) =>
    /\ call.ret = MatchesSpec(call.arg[2], call.arg[1])
    /\ call.arg = <<TextStartup, RuleAiGia>> => call.ret = TRUE
    /\ call.arg = <<TextGiaDau, RuleGia>> => call.ret = FALSE

\* the matcher has answered the first example
C15_Witness ==
  /\ call.fn = "text_matches"
  /\ call.done
  /\ call.arg = <<TextStartup, RuleAiGia>>
  /\ call.ret = TRUE

IsOr(tok) == upper(tok) = <<"O", "R">>
IsAnd(tok) == upper(tok) = <<"A", "N", "D">>

\* the members of a set of numbers, in increasing order
Ascending(S) ==
  [i \in 1..Cardinality(S) |->
     CHOOSE x \in S : Cardinality({ y \in S : y < x }) = i - 1]

\* the tokens of a line between one OR (or the start) and the next (or the
\* end), as terms, AND left out
Segments(toks) ==
  LET ors == Ascending({ i \in DOMAIN toks : IsOr(toks[i]) })
      cuts == <<0>> \o ors \o <<Len(toks) + 1>>
      words(k) == SelectSeq(SubSeq(toks, cuts[k] + 1, cuts[k + 1] - 1),
                            LAMBDA t : ~IsAnd(t))
  IN [k \in 1..(Len(cuts) - 1) |->
        [i \in DOMAIN words(k) |-> lower(strip_quotes(words(k)[i]))]]

\* the Clause of a line: its AndGroups that hold a term
ClauseSpec(raw) ==
  SelectSeq(Segments(findall(strip(raw), 1)), LAMBDA g : g # <<>>)

\* one Clause for every line that is neither blank nor a comment
RuleOfEveryLine(lines) ==
  LET kept_lines == SelectSeq(lines, LAMBDA l : ~skipped(l))
  IN [i \in DOMAIN kept_lines |-> ClauseSpec(kept_lines[i])]

\* C16 as stated: every line that is neither blank nor a comment becomes one
\* Clause, whose AndGroups are the terms between the OR tokens, AND ignored.
C16_Compile ==
  (call.fn = "parse_rules" /\ call.done) =>
    call.ret = RuleOfEveryLine(call.arg)

\* C16 amended: every such line that holds a term becomes one Clause; a line
\* of AND and OR tokens alone becomes none.
C16_CompileTermLines ==
  (call.fn = "parse_rules" /\ call.done) =>
    call.ret = SelectSeq(RuleOfEveryLine(call.arg), LAMBDA c : c # <<>>)

\* a line with a quoted phrase, or, And and upper-case terms was compiled
C16_Witness ==
  /\ call.fn = "parse_rules"
  /\ call.done
  /\ call.arg = <<LineAnd, LineQuoted>>
  /\ call.ret = << << <<<<"b", " ", "o">>>>, <<<<"b">>, <<"r">>>> >> >>

IdKeys == <<"id", "guid", "link">>

\* the first present value among id, guid, link; else the hash
FingerprintSpec(e) ==
  LET present == { i \in DOMAIN IdKeys : e[IdKeys[i]] # <<>> }
      first == CHOOSE i \in present : \A j \in present : i <= j
  IN IF present # {} THEN e[IdKeys[first]]
     ELSE <<"h:">> \o sha1hex(e.title \o <<"|">> \o e.link \o <<"|">> \o e.published)

\* C19: the fingerprint is the first present value among id, guid and link,
\* else a hash of title, link and published; two parses of an entry that
\* agree on these fields give the same fingerprint.
C19_Fingerprint ==
  (call.fn = "norm_id" /\ call.done) =>
    /\ call.ret[1] = FingerprintSpec(call.arg[1])
    /\ call.ret[1] = call.ret[2]

\* an entry without id, with guid and link, parsed twice with different
\* summaries: the guid both times
C19_Witness ==
  /\ call.fn = "norm_id"
  /\ call.done
  /\ call.arg[1].id = <<>>
  /\ call.arg[1].guid # <<>>
  /\ call.arg[1].link # <<>>
  /\ call.arg[2].summary # call.arg[1].summary
  /\ call.ret = <<call.arg[1].guid, call.arg[1].guid>>


\* C17: compiling zero lines gives a rule that matches any text, so a run
\* with no filter configured reports every entry its feeds returned that was
\* not seen before and that the age filter let through.
C17_EmptyRuleReportsAll ==
  /\ parse_rules(<<>>) = <<>>
  /\ \A t \in {TextStartup, TextGiaDau, <<"y">>} :
       text_matches(t, parse_rules(<<>>))
  /\ (pc = "f_save_state" /\ rules = parse_rules(<<>>)) =>
       \A f \in Feeds : task[f].outcome = "fresh" =>
         \A j \in DOMAIN content[f] :
           (/\ ~HasId(OldState.seen[f], norm_id(content[f][j]))
            /\ ~age_dropped(content[f][j], cutoff_ts, utc_offset))
             => <<f, norm_id(content[f][j])>> \in HitPairs(hits)

\* a run with no filter has reported an entry that the one-term filter of
\* the other keyword file would not match
C17_Witness ==
  /\ pc = "f_save_state"
  /\ rules = parse_rules(<<>>)
  /\ \E i \in DOMAIN hits :
       /\ hits[i].e = EB
       /\ ~text_matches(combined(EB), parse_rules(<< <<"x">> >>))


\* the publish time of an entry, when the parser could read one
HasPublishTime(e) == e.published_parsed # <<>>
PublishTime(e) == e.published_parsed[1]

\* C18: after the merge, an entry of a feed that returned a body whose
\* publish time is earlier than the cutoff is not among the matches and was
\* not recorded as seen by this run; an unseen, matching entry whose publish
\* time is at or after the cutoff, or that has none, is among the matches.
C18_AgeFilter ==
  pc = "f_save_state" =>
    \A f \in Feeds : task[f].outcome = "fresh" =>
      \A j \in DOMAIN content[f] :
        LET e == content[f][j]
            id == norm_id(e)
        IN /\ (HasPublishTime(e) /\ PublishTime(e) < cutoff_ts) =>
                /\ <<f, id>> \notin HitPairs(hits)
                /\ HasId(state.seen[f], id) => HasId(OldState.seen[f], id)
           /\ (/\ ~HasPublishTime(e) \/ PublishTime(e) >= cutoff_ts
               /\ ~HasId(OldState.seen[f], id)
               /\ Matching(e))
                => <<f, id>> \in HitPairs(hits)


\* C29: every rule parse_rules returns is well formed: each Clause holds an
\* AndGroup, each AndGroup holds a term, and no term is the empty string.
C29_WellFormed ==
  (call.fn = "parse_rules" /\ call.done) =>
    \A c \in DOMAIN call.ret :
      /\ call.ret[c] # <<>>
      /\ \A g \in DOMAIN call.ret[c] :
           /\ call.ret[c][g] # <<>>
           /\ \A t \in DOMAIN call.ret[c][g] : call.ret[c][g][t] # <<>>


\* the items of a feed that the age cut of prune_state lets through
Unexpired(items, nowv) ==
  SelectSeq(items, LAMBDA r : r.ts >= nowv - STATE_TTL_DAYS * SecondsPerDay)

\* C23: when a feed holds more unexpired fingerprints than the cap,
\* prune_state keeps exactly the cap, each kept one at least as new as each
\* dropped one, and among equal timestamps the ones the dict held first.
C23_CapKeepsNewest ==
  [][SlowPrune =>
       \A f \in Feeds :
         LET before == Unexpired(state.seen[f], now)
             after == state'.seen[f]
             Kept(i) == HasId(after, before[i].id)
         IN Len(before) > STATE_MAX_IDS_PER_FEED =>
              /\ Len(after) = STATE_MAX_IDS_PER_FEED
              /\ \A k \in DOMAIN after : \E i \in DOMAIN before : before[i] = after[k]
              /\ \A i, j \in DOMAIN before :
                   (Kept(i) /\ ~Kept(j)) =>
                     /\ before[i].ts >= before[j].ts
                     /\ before[i].ts = before[j].ts => i < j]_vars

\* the cap has dropped an unexpired fingerprint of an earlier run and kept
\* a newer one
C23_Witness ==
  /\ pc = "s_save"
  /\ \E f \in Feeds :
       /\ Len(state.seen[f]) = STATE_MAX_IDS_PER_FEED
       /\ \E i \in DOMAIN OldState.seen[f] :
            /\ OldState.seen[f][i].ts >= now - STATE_TTL_DAYS * SecondsPerDay
            /\ ~HasId(state.seen[f], OldState.seen[f][i].id)
            /\ \A k \in DOMAIN state.seen[f] :
                 state.seen[f][k].ts > OldState.seen[f][i].ts


\* C24: after the merge, the cache record of an endpoint whose fetch returned
\* a body is that response's validators, fetch time and status and nothing
\* else: no key of an earlier attempt, such as its error, is left in it.
C24_FreshOverwrites ==
  pc = "f_save_state" =>
    \A f \in Feeds : task[f].outcome = "fresh" =>
      /\ cache[f] = task[f].res.meta
      /\ cache[f].error = Absent


\* the fingerprints a run has appended to its result set for a feed
HitIds(f) == { hits[i].id : i \in { k \in DOMAIN hits : hits[k].f = f } }

\* C25: after the merge of a run, the records the run loaded are unchanged,
\* the fingerprints added for a feed are exactly those of the entries
\* appended to the result set, and an entry
\* that was already seen, dropped by the age filter or not matching the rule
\* has added none.
C25_SeenOnlyByMatching ==
  pc = "f_save_state" =>
    \A f \in Feeds :
      LET old == OldState.seen[f]
          new == state.seen[f]
      IN /\ Len(new) >= Len(old)
         /\ \A i \in DOMAIN old : new[i] = old[i]
         /\ { new[i].id : i \in DOMAIN new \ DOMAIN old } = HitIds(f)
         /\ \A j \in DOMAIN content[f] :
              LET e == content[f][j]
              IN (\/ HasId(old, norm_id(e))
                  \/ age_dropped(e, cutoff_ts, utc_offset)
                  \/ ~Matching(e))
                   => /\ norm_id(e) \notin HitIds(f)
                      /\ HasId(new, norm_id(e)) <=> HasId(old, norm_id(e))

\* a run has recorded the one matching entry of a feed that also served an
\* entry the rule does not match, next to a record of an earlier run
C25_Witness ==
  /\ pc = "f_save_state"
  /\ \E f \in Feeds :
       /\ task[f].outcome = "fresh"
       /\ HitIds(f) # {}
       /\ \E j \in DOMAIN content[f] :
            /\ ~HasId(OldState.seen[f], norm_id(content[f][j]))
            /\ ~Matching(content[f][j])
       /\ \E g \in Feeds : OldState.seen[g] # <<>>


\* a call of one of the two entry loops has returned
LoopDone == call.fn \in {"main_async", "process"} /\ call.done

\* the loop of the call passes entry e on to the rule
LoopPasses(e) ==
  /\ text_matches(combined(e), rules)
  /\ call.fn = "main_async" =>
       ~age_dropped(e, now - MAX_ENTRY_AGE_DAYS * SecondsPerDay, utc_offset)

\* C28: the result set of a run holds no two entries with the same
\* fingerprint for a feed; the entry reported for a fingerprint is its first
\* occurrence in the feed's content that passes the filters; and the number
\* of reported entries is the number of fingerprints the run recorded.
C28_NoDuplicateInRun ==
  LoopDone =>
    LET entries == call.arg[1]
        hs == call.ret.hits
        Occ(id) == { j \in DOMAIN entries :
                       norm_id(entries[j]) = id /\ LoopPasses(entries[j]) }
    IN /\ \A i, k \in DOMAIN hs : hs[i].id = hs[k].id => i = k
       /\ \A i \in DOMAIN hs :
            \E j \in Occ(hs[i].id) :
              /\ hs[i].e = entries[j]
              /\ \A m \in Occ(hs[i].id) : j <= m
       /\ Len(hs) = Cardinality(IdsOf(call.ret.seen) \ IdsOf(call.arg[2]))

\* a feed served a fingerprint three times, first in an entry the rule does
\* not match, and the loop reported its second occurrence alone
C28_Witness ==
  /\ LoopDone
  /\ Len(call.arg[1]) = 3
  /\ \A j \in 1..3 : norm_id(call.arg[1][j]) = <<"a">>
  /\ ~LoopPasses(call.arg[1][1])
  /\ LoopPasses(call.arg[1][2])
  /\ LoopPasses(call.arg[1][3])
  /\ call.arg[1][2] # call.arg[1][3]
  /\ Len(call.ret.hits) = 1
  /\ call.ret.hits[1].e = call.arg[1][2]


\* C27: each turn of the merge puts the result of the fetch requested for
\* feed idx, whatever address answered and whenever it completed, into the
\* cache record and seen dict of feed idx and of no other feed.
C27_MergedIntoRequested ==
  [][FastMerge =>
       LET f == idx
           res == task[f].res
           body == IF res.content = <<>> THEN <<>> ELSE res.content[1]
       IN /\ cache' = [cache EXCEPT ![f] = merge(cache[f], res.meta)]
          /\ \A g \in Feeds \ {f} : state'.seen[g] = state.seen[g]
          /\ IdsOf(state'.seen[f]) \ IdsOf(state.seen[f])
               \subseteq { norm_id(body[j]) : j \in DOMAIN body }
          /\ \A i \in DOMAIN hits' \ DOMAIN hits :
               /\ hits'[i].f = f
               /\ \E j \in DOMAIN body : hits'[i].e = body[j]]_vars

\* the fetch for the second feed completed a day before the fetch for the
\* first, which was redirected to the second feed's address; the first
\* feed's record and seen dict hold that result, the second feed's its own
C27_Witness ==
  /\ pc = "f_save_state"
  /\ task[1].outcome = "redirected"
  /\ task[1].res.url = feeds[2]
  /\ task[2].outcome = "error"
  /\ task[2].at < task[1].at
  /\ cache[1].status = Key(200)
  /\ cache[1].fetched_at = Key(task[1].at)
  /\ state.seen[1] # <<>>
  /\ cache[2].error # Absent
  /\ cache[2].status = Absent
  /\ state.seen[2] = <<>>


\* C26: in the fetch phase every endpoint waiting on the semaphore comes to
\* send its request, the run comes to the merge, a task that has its result
\* keeps it until the run ends, and a fetch that ends in an exception
\* changes no other task.
C26_FetchPhaseLive ==
  /\ \A f \in Feeds :
       (pc = "f_fetch" /\ task[f].st = "waiting") ~> (task[f].st = "inflight")
  /\ (pc = "f_fetch") ~> (pc = "f_merge")
  /\ [][\A f \in Feeds :
          /\ task[f].st = "done" => (task'[f] = task[f] \/ pc' = "idle")
          /\ (task[f].st = "inflight" /\ task'[f].outcome = "error") =>
               \A g \in Feeds \ {f} : task'[g] = task[g]]_vars

\* the merge was reached after the first feed's fetch ended in an exception
\* and the second feed's, sent later, returned a body
C26_Witness ==
  /\ pc = "f_merge"
  /\ task[1].outcome = "error"
  /\ task[2].outcome = "fresh"
  /\ task[2].res.content # <<>>
  /\ \A f \in Feeds : task[f].st = "done"


\* a run that found its configuration missing or unreadable
ConfigProblem ==
  SlowUsage \/ FastUsage \/ FastOpmlUnreadable \/ SlowOpmlUnreadable

\* C21: a run with missing arguments or an unreadable feed list ends in a
\* failure, having sent no request and having left both state files as they
\* were.
C21_ConfigFatal ==
  [][ConfigProblem =>
       /\ exit' = "config"
       /\ stateFile' = stateFile
       /\ cacheFile' = cacheFile
       /\ task' = task]_vars


\* the initialisation reports nothing, records every entry of every feed
\* when all were parsed, and of each feed all entries or none
InitRecordsAll ==
  /\ pc \in {"i_process", "i_save"} => hits = <<>>
  /\ (pc = "i_save" /\ gotAll) =>
       \A f \in Feeds : \A j \in DOMAIN content[f] :
         /\ HasId(state.seen[f], norm_id(content[f][j]))
         /\ <<f, norm_id(content[f][j])>> \in rec
  /\ pc = "i_save" =>
       \A f \in Feeds :
         \/ \A j \in DOMAIN content[f] :
              HasId(state.seen[f], norm_id(content[f][j]))
         \/ state.seen[f] = load_state(stateFile).seen[f]

====
